---- MODULE Spec2Model ----
(***************************************************************************)
(* numpy2dng: the 10/12/14-bit packing codec (src/src/numpy2dng/packing.py) *)
(* and the conversion orchestrator DNGBASE (src/src/numpy2dng/core.py).     *)
(*                                                                         *)
(* A 2-D array is a sequence of rows, a row a sequence of samples.  A      *)
(* Python Optional is a set: {} is None, {x} is the value x.               *)
(***************************************************************************)
EXTENDS Integers, Sequences, FiniteSets, TLC

VARIABLES pkDepth, pkData, pkOut, pkState,
          self_tags, self_path, self_filter,
          call, outcome, returned, mainIFD, strips, streamOut, fileOut, log

pkVars == <<pkDepth, pkData, pkOut, pkState>>
cfgVars == <<self_tags, self_path, self_filter>>
callVars == <<call, outcome, returned, mainIFD, strips, streamOut, fileOut, log>>
vars == <<pkVars, cfgVars, callVars>>

(***************************************************************************)
(* Bounds of the model.                                                    *)
(***************************************************************************)
\* longest row handed to the codec on its own
MaxRowLen == 5
\* most rows of an array handed to the codec on its own
MaxRows == 2
\* widest and tallest image a tag set configures
MaxWidth == 2
MaxHeight == 2

(***************************************************************************)
(* Unsigned 16-bit arithmetic as numpy computes it.                        *)
(***************************************************************************)
Pow2(n) == 2 ^ n

Min(a, b) == IF a < b THEN a ELSE b

\* x >> k
Shr(x, k) == x \div Pow2(k)

\* x << k in a uint16
Shl(x, k) == (x * Pow2(k)) % 65536

\* x | y, bit by bit from the lowest
RECURSIVE BitOr(_, _)
BitOr(x, y) ==
    IF x = 0 THEN y
    ELSE IF y = 0 THEN x
    ELSE (IF x % 2 = 1 \/ y % 2 = 1 THEN 1 ELSE 0) + 2 * BitOr(x \div 2, y \div 2)

\* x & y, bit by bit from the lowest
RECURSIVE BitAnd(_, _)
BitAnd(x, y) ==
    IF x = 0 \/ y = 0 THEN 0
    ELSE (IF x % 2 = 1 /\ y % 2 = 1 THEN 1 ELSE 0) + 2 * BitAnd(x \div 2, y \div 2)

\* a uint16 value stored into a uint8 array keeps its low 8 bits
ToUint8(x) == x % 256

\* math.ceil(n / 8)
CeilDiv8(n) == (n + 7) \div 8

(***************************************************************************)
(* packing.py: pack10, pack12, pack14.  data[r][4k + 1 + j] is numpy's     *)
(* data[r, j::4][k]; byte i of a row (1-based) is out[r, (i-1) % b :: b]   *)
(* at index (i-1) \div b.                                                  *)
(***************************************************************************)
pack10Byte(row, i) ==
    LET k == (i - 1) \div 5
        s0 == row[4 * k + 1]
        s1 == row[4 * k + 2]
        s2 == row[4 * k + 3]
        s3 == row[4 * k + 4]
        j == (i - 1) % 5
    IN ToUint8(CASE j = 0 -> Shr(s0, 2)
                 [] j = 1 -> BitOr(Shl(BitAnd(s0, 3), 6), Shr(s1, 4))
                 [] j = 2 -> BitOr(Shl(BitAnd(s1, 15), 4), Shr(s2, 6))
                 [] j = 3 -> BitOr(Shl(BitAnd(s2, 63), 2), Shr(s3, 8))
                 [] j = 4 -> BitAnd(s3, 255))

pack10(data) ==
    [r \in 1..Len(data) |->
        [i \in 1..((Len(data[r]) * 5) \div 4) |-> pack10Byte(data[r], i)]]

\* the 12-bit group with the low nibble of s0 left in the low half of B1
pack12ByteUnshifted(row, i) ==
    LET k == (i - 1) \div 3
        s0 == row[2 * k + 1]
        s1 == row[2 * k + 2]
        j == (i - 1) % 3
    IN ToUint8(CASE j = 0 -> Shr(BitAnd(s0, 4080), 4)
                 [] j = 1 -> BitOr(BitAnd(s0, 15), Shr(BitAnd(s1, 3840), 8))
                 [] j = 2 -> BitAnd(s1, 255))

pack12Byte(row, i) ==
    LET k == (i - 1) \div 3
        s0 == row[2 * k + 1]
        s1 == row[2 * k + 2]
        j == (i - 1) % 3
    IN ToUint8(CASE j = 0 -> Shr(BitAnd(s0, 4080), 4)
                 [] j = 1 -> BitOr(Shl(BitAnd(s0, 15), 4), Shr(BitAnd(s1, 3840), 8))
                 [] j = 2 -> BitAnd(s1, 255))

pack12(data) ==
    [r \in 1..Len(data) |->
        [i \in 1..((Len(data[r]) * 3) \div 2) |-> pack12Byte(data[r], i)]]

pack14Byte(row, i) ==
    LET k == (i - 1) \div 7
        s0 == row[4 * k + 1]
        s1 == row[4 * k + 2]
        s2 == row[4 * k + 3]
        s3 == row[4 * k + 4]
        j == (i - 1) % 7
    IN ToUint8(CASE j = 0 -> Shr(s0, 6)
                 [] j = 1 -> BitOr(Shl(BitAnd(s0, 63), 2), Shr(s1, 12))
                 [] j = 2 -> BitAnd(Shr(s1, 4), 255)
                 [] j = 3 -> BitOr(Shl(BitAnd(s1, 15), 4), Shr(s2, 10))
                 [] j = 4 -> BitAnd(Shr(s2, 2), 255)
                 [] j = 5 -> BitOr(Shl(BitAnd(s2, 3), 6), Shr(s3, 8))
                 [] j = 6 -> BitAnd(s3, 255))

pack14(data) ==
    [r \in 1..Len(data) |->
        [i \in 1..((Len(data[r]) * 7) \div 4) |-> pack14Byte(data[r], i)]]

(***************************************************************************)
(* packing.py: pack_raw_safe.                                              *)
(***************************************************************************)
\* the bit depths pack_raw_safe has a group layout for
PackedDepths == {10, 12, 14}

group_size(bit_depth) == IF bit_depth = 12 THEN 2 ELSE 4

\* bytes of one packed group
group_bytes(bit_depth) == (group_size(bit_depth) * bit_depth) \div 8

pack_func(bit_depth, data) ==
    CASE bit_depth = 10 -> pack10(data)
      [] bit_depth = 12 -> pack12(data)
      [] bit_depth = 14 -> pack14(data)

\* the else branch: raise ValueError("Unsupported bit depth")
pack_raw_safe_raises(bit_depth) == bit_depth \notin PackedDepths

pad_width(w, bit_depth) ==
    IF w % group_size(bit_depth) # 0
    THEN group_size(bit_depth) - (w % group_size(bit_depth))
    ELSE 0

\* np.pad(data, ((0, 0), (0, pad_width)), "constant", constant_values=0)
data_padded(data, bit_depth) ==
    [r \in 1..Len(data) |->
        data[r] \o [c \in 1..pad_width(Len(data[r]), bit_depth) |-> 0]]

\* the valid width rounded down instead of up
valid_byte_width_floor(w, bit_depth) == (w * bit_depth) \div 8

valid_byte_width(w, bit_depth) == CeilDiv8(w * bit_depth)

\* the padded packed rows returned uncut
TruncateRowsNone(out_padded, n) == out_padded

\* out_padded[:, :valid_byte_width]
TruncateRows(out_padded, n) ==
    [r \in 1..Len(out_padded) |->
        SubSeq(out_padded[r], 1, Min(n, Len(out_padded[r])))]

pack_raw_safe(data, bit_depth) ==
    TruncateRows(pack_func(bit_depth, data_padded(data, bit_depth)),
                 valid_byte_width(Len(data[1]), bit_depth))

(***************************************************************************)
(* The frames of the orchestrator.  A frame is [dtype, shape, data]: data  *)
(* is the flat row-major sequence of its elements (the value of each       *)
(* element; a float32 element holds a small whole number).  A string is    *)
(* the sequence of its character codes.                                    *)
(***************************************************************************)
RECURSIVE Size(_)
Size(shape) == IF shape = <<>> THEN 1 ELSE Head(shape) * Size(Tail(shape))

RECURSIVE Flatten(_)
Flatten(rows) == IF rows = <<>> THEN <<>> ELSE Head(rows) \o Flatten(Tail(rows))

\* the rows of a rank-2 frame
Rows(frame) ==
    [r \in 1..frame.shape[1] |->
        [c \in 1..frame.shape[2] |-> frame.data[(r - 1) * frame.shape[2] + c]]]

\* n unsigned integers in k little-endian bytes each
LE(n, k) == [i \in 1..k |-> (n \div Pow2(8 * (i - 1))) % 256]

RECURSIVE Log2(_)
Log2(v) == IF v < 2 THEN 0 ELSE 1 + Log2(v \div 2)

\* the IEEE-754 binary32 image of a whole number 0 <= v < 2^24
Float32Bits(v) ==
    IF v = 0 THEN 0
    ELSE (127 + Log2(v)) * Pow2(23) + (v - Pow2(Log2(v))) * Pow2(23 - Log2(v))

\* ndarray.tobytes() of an element, in the host's (little-endian) order
ElementBytes(dtype, v) ==
    CASE dtype = "uint16" -> LE(v, 2)
      [] dtype = "float32" -> LE(Float32Bits(v), 4)
      [] OTHER -> LE(v % 256, 1)

RECURSIVE NativeBytes(_, _)
NativeBytes(dtype, data) ==
    IF data = <<>> THEN <<>>
    ELSE ElementBytes(dtype, Head(data)) \o NativeBytes(dtype, Tail(data))

(***************************************************************************)
(* dng.py and defs.py are not part of the sources at hand: DNGTags, dngTag,*)
(* dngIFD, DNG and the enumerations are modelled from their uses in        *)
(* core.py and from the container format.  A tag set maps tag names to     *)
(* value lists; a directory is the list of its entries in append order.    *)
(***************************************************************************)
RequiredTags == {"ImageWidth", "ImageLength", "BitsPerSample"}

\* the tags __process__ injects itself
ReservedTags == {"StripOffsets", "NewSubfileType", "StripByteCounts", "Compression",
                 "Software", "DNGVersion", "DNGBackwardVersion", "SampleFormat"}

\* DNGTags.get(tag): the tag's entry, or None
TagsGet(t, name) == IF name \in DOMAIN t THEN {t[name]} ELSE {}

\* every tag name of the model, ascending by TIFF tag identifier
TagOrder == <<"NewSubfileType", "ImageWidth", "ImageLength", "BitsPerSample",
              "Compression", "StripOffsets", "SamplesPerPixel", "StripByteCounts",
              "Software", "SampleFormat", "DNGVersion", "DNGBackwardVersion">>

TagId(name) ==
    CASE name = "NewSubfileType" -> 254
      [] name = "ImageWidth" -> 256
      [] name = "ImageLength" -> 257
      [] name = "BitsPerSample" -> 258
      [] name = "Compression" -> 259
      [] name = "StripOffsets" -> 273
      [] name = "SamplesPerPixel" -> 277
      [] name = "StripByteCounts" -> 279
      [] name = "Software" -> 305
      [] name = "SampleFormat" -> 339
      [] name = "DNGVersion" -> 50706
      [] name = "DNGBackwardVersion" -> 50707

\* DNGTags.list(): the caller's entries
TagsList(t) ==
    LET names == SelectSeq(TagOrder, LAMBDA n : n \in DOMAIN t)
    IN [i \in 1..Len(names) |-> [tag |-> names[i], value |-> t[names[i]]]]

CompressionUncompressed == <<1>>
SampleFormatUint == <<1>>
SampleFormatFloatingPoint == <<3>>
DNGVersionV1_0 == <<1, 0, 0, 0>>
DNGVersionV1_4 == <<1, 4, 0, 0>>
\* "PiDNG"
SoftwareName == <<80, 105, 68, 78, 71>>

(***************************************************************************)
(* core.py: DNGBASE.  An operation that raises leaves its message in       *)
(* outcome: "" means it returned.                                          *)
(***************************************************************************)
ErrNotConfigured == "Exception: Options have not been set!"
ErrDataFormat == "Exception: RAW Data is not in correct format."
ErrNoWidth == "Exception: No width is defined in tags."
ErrNoHeight == "Exception: No height is defined in tags."
ErrNoBits == "Exception: Bit per pixel is not defined."
ErrFilterKind == "TypeError: return value is not a valid numpy array!"
ErrFilterShape == "ValueError: return array does not have the same shape!"
ErrFilterDtype == "ValueError: array data type is invalid!"
ErrRank == "ValueError: rawFrame must be at least 2D"
ErrShape == "ValueError: rawFrame shape does not match DNG tags"
\* h, w = data.shape on an array of another rank
ErrPackRank == "ValueError: too many values to unpack"
\* data >> 2 on a float array
ErrPackFloat == "TypeError: ufunc 'right_shift' not supported for the input types"

\* __data_condition__: the message raised, "" when the dtype is accepted
data_condition(data) ==
    IF data.dtype # "uint16" /\ data.dtype # "float32" THEN ErrDataFormat ELSE ""

\* __tags_condition__: the message raised, "" when the three tags are there
tags_condition(t) ==
    IF TagsGet(t, "ImageWidth") = {} THEN ErrNoWidth
    ELSE IF TagsGet(t, "ImageLength") = {} THEN ErrNoHeight
    ELSE IF TagsGet(t, "BitsPerSample") = {} THEN ErrNoBits
    ELSE ""

\* __unpack_pixels__
unpack_pixels(data) == data

\* the pixel transforms a caller may install: what filter(rawFrame) returns
CallFilter(f, rawFrame) ==
    CASE f = "identity" -> [kind |-> "ndarray", frame |-> rawFrame]
      [] f = "astype_uint16" ->
            [kind |-> "ndarray", frame |-> [rawFrame EXCEPT !.dtype = "uint16"]]
      [] f = "ravel" ->
            [kind |-> "ndarray",
             frame |-> [rawFrame EXCEPT !.shape = <<Size(rawFrame.shape)>>]]
      [] f = "tolist" -> [kind |-> "list", frame |-> rawFrame]

\* __filter__ without its element-type check
filter_unchecked_dtype(rawFrame, flt) ==
    IF flt = {} THEN [err |-> "", frame |-> rawFrame]
    ELSE LET processed == CallFilter(CHOOSE f \in flt : TRUE, rawFrame)
         IN IF processed.kind # "ndarray"
            THEN [err |-> ErrFilterKind, frame |-> rawFrame]
            ELSE IF processed.frame.shape # rawFrame.shape
            THEN [err |-> ErrFilterShape, frame |-> rawFrame]
            ELSE [err |-> "", frame |-> processed.frame]

\* __filter__: [err, frame]
filter(rawFrame, flt) ==
    IF flt = {} THEN [err |-> "", frame |-> rawFrame]
    ELSE LET processed == CallFilter(CHOOSE f \in flt : TRUE, rawFrame)
         IN IF processed.kind # "ndarray"
            THEN [err |-> ErrFilterKind, frame |-> rawFrame]
            ELSE IF processed.frame.shape # rawFrame.shape
            THEN [err |-> ErrFilterShape, frame |-> rawFrame]
            ELSE IF processed.frame.dtype # "uint16"
            THEN [err |-> ErrFilterDtype, frame |-> rawFrame]
            ELSE [err |-> "", frame |-> processed.frame]

\* __process__, lines 105-115: the shape checks
shape_check(rawFrame, t) ==
    IF Len(rawFrame.shape) < 2 THEN ErrRank
    ELSE IF rawFrame.shape[2] # t["ImageWidth"][1] \/ rawFrame.shape[1] # t["ImageLength"][1]
    THEN ErrShape
    ELSE ""

\* __process__, lines 120-125
sample_format(rawFrame) ==
    IF rawFrame.dtype = "float32" THEN SampleFormatFloatingPoint ELSE SampleFormatUint

backward_version(rawFrame) ==
    IF rawFrame.dtype = "float32" THEN DNGVersionV1_4 ELSE DNGVersionV1_0

compression_scheme == CompressionUncompressed

\* what pack_raw_safe raises on this frame, "" when it returns
pack_error(rawFrame, bpp) ==
    IF pack_raw_safe_raises(bpp) THEN "ValueError: Unsupported bit depth"
    ELSE IF Len(rawFrame.shape) # 2 THEN ErrPackRank
    ELSE IF rawFrame.dtype = "float32" THEN ErrPackFloat
    ELSE ""

PackedArray(rawFrame, bpp) ==
    LET out == pack_raw_safe(Rows(rawFrame), bpp)
    IN [shape |-> <<Len(out), Len(out[1])>>, bytes |-> Flatten(out)]

\* __process__, lines 128-138: [err, shape, bytes], bytes in row-major order
packedFrame(rawFrame, bpp) ==
    IF bpp = 8
    THEN [err |-> "", shape |-> rawFrame.shape,
          bytes |-> [i \in 1..Len(rawFrame.data) |-> rawFrame.data[i] % 256]]
    ELSE IF bpp = 10 \/ bpp = 12 \/ bpp = 14
    THEN IF pack_error(rawFrame, bpp) # ""
         THEN [err |-> pack_error(rawFrame, bpp), shape |-> <<>>, bytes |-> <<>>]
         ELSE [err |-> ""] @@ PackedArray(rawFrame, bpp)
    ELSE [err |-> "", shape |-> rawFrame.shape,
          bytes |-> NativeBytes(rawFrame.dtype, rawFrame.data)]

\* __process__, line 141.  len is what len(tile) returns: the byte count of
\* a bytes object, the first dimension of the memoryview of an array.
Tile(packed, file) ==
    IF file # {}
    THEN [bytes |-> packed.bytes, len |-> packed.shape[1]]
    ELSE [bytes |-> packed.bytes, len |-> Len(packed.bytes)]

\* __process__, lines 147-170: the main directory, offsets being the value
\* of StripOffsets
BuildIFD(rawFrame, t, tiles, offsets) ==
    << [tag |-> "StripOffsets", value |-> offsets],
       [tag |-> "NewSubfileType", value |-> <<0>>],
       [tag |-> "StripByteCounts", value |-> [i \in 1..Len(tiles) |-> tiles[i].len]],
       [tag |-> "Compression", value |-> compression_scheme],
       [tag |-> "Software", value |-> SoftwareName],
       [tag |-> "DNGVersion", value |-> DNGVersionV1_4],
       [tag |-> "DNGBackwardVersion", value |-> backward_version(rawFrame)],
       [tag |-> "SampleFormat", value |-> sample_format(rawFrame)] >>
    \o TagsList(t)

(***************************************************************************)
(* The layout engine (DNG.dataLen, DNG.setBuffer, DNG.write), after the    *)
(* container format: the header, the directory with its entries ascending  *)
(* by tag identifier, then the strips.  The directory is laid out one cell *)
(* per field, the strips one cell per byte; offsets count cells.           *)
(***************************************************************************)
Header == <<73, 73, 42, 8>>

RECURSIVE EntryCells(_)
EntryCells(entries) ==
    IF entries = <<>> THEN <<>>
    ELSE <<TagId(Head(entries).tag), Len(Head(entries).value)>>
         \o Head(entries).value \o EntryCells(Tail(entries))

RECURSIVE SortedFrom(_, _)
SortedFrom(entries, i) ==
    IF i > Len(TagOrder) THEN <<>>
    ELSE SelectSeq(entries, LAMBDA e : e.tag = TagOrder[i]) \o SortedFrom(entries, i + 1)

DirImage(entries) == <<Len(entries)>> \o EntryCells(SortedFrom(entries, 1)) \o <<0>>

RECURSIVE StripBytes(_)
StripBytes(tiles) ==
    IF tiles = <<>> THEN <<>> ELSE Head(tiles).bytes \o StripBytes(Tail(tiles))

\* DNG.dataLen: where each strip starts
StripOffsets(entries, tiles) ==
    [i \in 1..Len(tiles) |->
        Len(Header) + Len(DirImage(entries)) + Len(StripBytes(SubSeq(tiles, 1, i - 1)))]

\* DNG.write: the bytes emitted, to the buffer or to the stream
WriteImage(entries, tiles) == Header \o DirImage(entries) \o StripBytes(tiles)

\* __process__ raising e
process_failed(e) ==
    [err |-> e, ifd |-> <<>>, tiles |-> <<>>, buf |-> <<>>, streamed |-> <<>>]

\* __process__, lines 172-184: image is what DNG.write emits
process_write(file, tiles, final, image) ==
    [err |-> "", ifd |-> final, tiles |-> tiles,
     buf |-> IF file = {} THEN image ELSE Header \o DirImage(final),
     streamed |-> IF file = {} THEN <<>> ELSE image]

\* __process__, lines 143-176: StripOffsets is appended as zeros and set to
\* the offsets once the layout is sized
process_layout(rawFrame, t, file, tiles, placeholder) ==
    process_write(file, tiles,
                  BuildIFD(rawFrame, t, tiles, StripOffsets(placeholder, tiles)),
                  WriteImage(BuildIFD(rawFrame, t, tiles,
                                      StripOffsets(placeholder, tiles)), tiles))

process_packed(rawFrame, t, file, packed) ==
    IF packed.err # "" THEN process_failed(packed.err)
    ELSE process_layout(rawFrame, t, file, <<Tile(packed, file)>>,
                        BuildIFD(rawFrame, t, <<Tile(packed, file)>>, <<0>>))

\* __process__: [err, ifd, tiles, buf, streamed]
process(rawFrame, t, file) ==
    IF shape_check(rawFrame, t) # "" THEN process_failed(shape_check(rawFrame, t))
    ELSE process_packed(rawFrame, t, file, packedFrame(rawFrame, t["BitsPerSample"][1]))

\* ".dng"
DotDng == <<46, 100, 110, 103>>

\* str.endswith
EndsWith(str, suffix) ==
    /\ Len(str) >= Len(suffix)
    /\ SubSeq(str, Len(str) - Len(suffix) + 1, Len(str)) = suffix

\* os.path.join of a directory and a name; 47 is "/"
PathJoin(dir, name) ==
    IF name # <<>> /\ name[1] = 47 THEN name
    ELSE IF dir = <<>> \/ dir[Len(dir)] = 47 THEN dir \o name
    ELSE dir \o <<47>> \o name

\* the extension appended to every filename
OutputPathAlwaysAppend(dir, filename) == PathJoin(dir, filename \o DotDng)

\* convert, lines 236-238
OutputPath(dir, filename) ==
    PathJoin(dir, IF EndsWith(filename, DotDng) THEN filename ELSE filename \o DotDng)

\* what one convert call did: [err, returned, file, ifd, tiles, streamed, log]
convert_raised(e, steps) ==
    [err |-> e, returned |-> [kind |-> "raise", value |-> <<>>], file |-> {},
     ifd |-> <<>>, tiles |-> <<>>, streamed |-> <<>>, log |-> steps]

\* convert, lines 226-243
convert_output(dir, filename, file, p, steps) ==
    IF p.err # ""
    THEN convert_raised(p.err, steps \o <<"pack">>)
    ELSE IF file # {}
    THEN [err |-> "", returned |-> [kind |-> "None", value |-> <<>>], file |-> {},
          ifd |-> p.ifd, tiles |-> p.tiles, streamed |-> p.streamed,
          log |-> steps \o <<"pack", "layout", "stream_write">>]
    ELSE IF Len(filename) > 0
    THEN [err |-> "",
          returned |-> [kind |-> "path", value |-> OutputPath(dir, filename)],
          file |-> {[name |-> OutputPath(dir, filename), bytes |-> p.buf]},
          ifd |-> p.ifd, tiles |-> p.tiles, streamed |-> p.streamed,
          log |-> steps \o <<"pack", "layout", "file_open", "file_write">>]
    ELSE [err |-> "", returned |-> [kind |-> "buf", value |-> p.buf], file |-> {},
          ifd |-> p.ifd, tiles |-> p.tiles, streamed |-> p.streamed,
          log |-> steps \o <<"pack", "layout">>]

\* convert with the output file opened ahead of __process__
convert_process_open_first(t, dir, filename, file, filtered, steps) ==
    IF filtered.err # "" THEN convert_raised(filtered.err, steps)
    ELSE IF shape_check(filtered.frame, t) # ""
    THEN [convert_raised(shape_check(filtered.frame, t),
                         steps \o (IF file = {} /\ Len(filename) > 0
                                   THEN <<"file_open">> ELSE <<>>)
                               \o <<"shape_check">>)
          EXCEPT !.file = IF file = {} /\ Len(filename) > 0
                          THEN {[name |-> OutputPath(dir, filename), bytes |-> <<>>]}
                          ELSE {}]
    ELSE convert_output(dir, filename, file, process(filtered.frame, t, file),
                        steps \o <<"shape_check">>)

\* convert, line 224
convert_process(t, dir, filename, file, filtered, steps) ==
    IF filtered.err # "" THEN convert_raised(filtered.err, steps)
    ELSE IF shape_check(filtered.frame, t) # ""
    THEN convert_raised(shape_check(filtered.frame, t), steps \o <<"shape_check">>)
    ELSE convert_output(dir, filename, file, process(filtered.frame, t, file),
                        steps \o <<"shape_check">>)

\* DNGBASE.convert on a converter with fields cfgTags, cfgPath, cfgFilter
convert(cfgTags, cfgPath, cfgFilter, image, filename, file) ==
    IF cfgTags = {} THEN convert_raised(ErrNotConfigured, <<"check_options">>)
    ELSE IF data_condition(image) # ""
    THEN convert_raised(data_condition(image), <<"check_options", "data_condition">>)
    ELSE convert_process(CHOOSE t \in cfgTags : TRUE, CHOOSE d \in cfgPath : TRUE,
                         filename, file, filter(unpack_pixels(image), cfgFilter),
                         <<"check_options", "data_condition", "unpack_pixels">>
                         \o (IF cfgFilter = {} THEN <<>> ELSE <<"filter_call">>))

(***************************************************************************)
(* The inputs the model draws.                                             *)
(***************************************************************************)
\* the configured bits-per-sample values: every branch of __process__, and 11
BitsValues == {8, 10, 11, 12, 14, 16, 32}

\* one more tag a caller may add to the three required ones
ExtraTags == {"SamplesPerPixel"} \cup ReservedTags

MkTags(w, h, b, extra) ==
    [n \in {"ImageWidth", "ImageLength", "BitsPerSample"} \cup extra |->
        CASE n = "ImageWidth" -> <<w>>
          [] n = "ImageLength" -> <<h>>
          [] n = "BitsPerSample" -> <<b>>
          [] OTHER -> <<1>>]

\* every size at every bit depth, and every extra tag on the largest 16-bit image
CompleteTagSets ==
    {MkTags(w, h, b, {}) : w \in 1..MaxWidth, h \in 1..MaxHeight, b \in BitsValues}
    \cup {MkTags(MaxWidth, MaxHeight, 16, {x}) : x \in ExtraTags}

\* tag sets lacking at least one required tag
IncompleteTagSets ==
    {[n \in present |-> <<1>>] : present \in (SUBSET RequiredTags) \ {RequiredTags}}

\* "out"
Paths == {<<111, 117, 116>>}

\* (filename, file): "" / "a" / "a.dng" with no stream, "" / "a" with one
Destinations ==
    {<<name, {}>> : name \in {<<>>, <<97>>, <<97>> \o DotDng}}
    \cup {<<name, {"stream"}>> : name \in {<<>>, <<97>>}}

Filters == {"identity", "astype_uint16", "ravel", "tolist"}

\* the elements of a test frame: uint16 values across the whole range,
\* small whole numbers otherwise
TestData(dtype, n) ==
    [i \in 1..n |-> IF dtype = "uint16" THEN (i * 9893) % 65536 ELSE i]

MkFrame(dtype, shape) ==
    [dtype |-> dtype, shape |-> shape, data |-> TestData(dtype, Size(shape))]

\* the frames tried against a configured (height, width): the matching shape
\* in each dtype, and for uint16 and uint8 one column too wide, rank 1, rank 3
FramesFor(t) ==
    IF t = {} THEN {MkFrame("uint16", <<1, 1>>)}
    ELSE LET x == CHOOSE y \in t : TRUE
             h == x["ImageLength"][1]
             w == x["ImageWidth"][1]
         IN {MkFrame(d, <<h, w>>) : d \in {"uint16", "float32", "uint8"}}
            \cup {MkFrame(d, <<h, w + 1>>) : d \in {"uint16", "uint8"}}
            \cup {MkFrame("uint16", <<h * w>>), MkFrame("uint16", <<h, w, 1>>)}

(***************************************************************************)
(* The operations of a converter.                                          *)
(***************************************************************************)
NoCallResult ==
    /\ returned = [kind |-> "", value |-> <<>>]
    /\ mainIFD = <<>>
    /\ strips = <<>>
    /\ streamOut = <<>>
    /\ fileOut = {}
    /\ log = <<>>

\* an operation other than convert leaves no result of a conversion
ClearCallResult ==
    /\ returned' = [kind |-> "", value |-> <<>>]
    /\ mainIFD' = <<>>
    /\ strips' = <<>>
    /\ streamOut' = <<>>
    /\ fileOut' = {}
    /\ log' = <<>>

ConvInit ==
    /\ self_tags = {}
    /\ self_path = {}
    /\ self_filter = {}
    /\ call = [op |-> "init"]
    /\ outcome = ""
    /\ NoCallResult

\* options storing the path before it validates the tags
OptionsPathFirst(t, p) ==
    /\ call' = [op |-> "options", tags |-> t, path |-> p]
    /\ outcome' = tags_condition(t)
    /\ self_path' = {p}
    /\ self_tags' = IF tags_condition(t) # "" THEN self_tags ELSE {t}
    /\ UNCHANGED self_filter
    /\ ClearCallResult
    /\ UNCHANGED pkVars

\* DNGBASE.options(tags, path)
Options(t, p) ==
    /\ call' = [op |-> "options", tags |-> t, path |-> p]
    /\ outcome' = tags_condition(t)
    /\ IF tags_condition(t) # ""
       THEN UNCHANGED cfgVars
       ELSE /\ self_tags' = {t}
            /\ self_path' = {p}
            /\ UNCHANGED self_filter
    /\ ClearCallResult
    /\ UNCHANGED pkVars

\* converter.filter = f
SetFilter(f) ==
    /\ self_filter' = f
    /\ call' = [op |-> "set_filter"]
    /\ outcome' = ""
    /\ ClearCallResult
    /\ UNCHANGED <<self_tags, self_path, pkVars>>

\* DNGBASE.convert(image, filename, file)
Convert(image, filename, file) ==
    \E r \in {convert(self_tags, self_path, self_filter, image, filename, file)} :
        /\ call' = [op |-> "convert", image |-> image, filename |-> filename,
                    file |-> file]
        /\ outcome' = r.err
        /\ returned' = r.returned
        /\ fileOut' = r.file
        /\ mainIFD' = r.ifd
        /\ strips' = r.tiles
        /\ streamOut' = r.streamed
        /\ log' = r.log
        /\ UNCHANGED <<cfgVars, pkVars>>

PackIdle ==
    /\ pkState = "idle"
    /\ pkDepth = 0
    /\ pkData = <<>>
    /\ pkOut = <<>>

Init == ConvInit /\ PackIdle

Next ==
    \/ \E t \in CompleteTagSets \cup IncompleteTagSets, p \in Paths : Options(t, p)
    \/ \E f \in {{}} \cup {{x} : x \in Filters} : SetFilter(f)
    \/ \E image \in FramesFor(self_tags), dest \in Destinations :
            Convert(image, dest[1], dest[2])

Spec == Init /\ [][Next]_vars

(***************************************************************************)
(* The codec on its own: an array is drawn, pack_raw_safe is applied.      *)
(***************************************************************************)
\* the bit depths pack_raw_safe is called with: the packed ones and 16
DepthInputs == PackedDepths \cup {16}

\* samples of a row: zero, a mixed pattern and all ones within the depth,
\* and 65535, which is out of range for every packed depth
SampleValues(d) ==
    IF d \in PackedDepths THEN {0, 9893 % Pow2(d), Pow2(d) - 1, 65535} ELSE {0}

Reverse(row) == [c \in 1..Len(row) |-> row[Len(row) + 1 - c]]

\* an array of h rows: the drawn row, and each further row the one above reversed
ArrayOf(row, h) == [r \in 1..h |-> IF r % 2 = 1 THEN row ELSE Reverse(row)]

PackInit ==
    /\ ConvInit
    /\ pkState = "input"
    /\ pkOut = <<>>
    /\ pkDepth \in DepthInputs
    /\ \E w \in 1..MaxRowLen, h \in 1..MaxRows :
          \E row \in [1..w -> SampleValues(pkDepth)] : pkData = ArrayOf(row, h)

\* pack_raw_safe(data, bit_depth)
Pack ==
    /\ pkState = "input"
    /\ IF pack_raw_safe_raises(pkDepth)
       THEN /\ pkState' = "raised"
            /\ pkOut' = <<>>
       ELSE /\ pkState' = "packed"
            /\ pkOut' = pack_raw_safe(pkData, pkDepth)
    /\ UNCHANGED <<pkDepth, pkData, cfgVars, callVars>>

PackNext == Pack

PackSpec == PackInit /\ [][PackNext]_vars

(***************************************************************************)
(* Properties of the codec.                                                *)
(***************************************************************************)
\* every sample of the array is below 2^d
ValidSamples(data, d) ==
    \A r \in 1..Len(data) : \A c \in 1..Len(data[r]) : data[r][c] < Pow2(d)

\* byte i (1-based) of a packed row, the bytes cut off its last group being zero
ByteAt(bytes, i) == IF i <= Len(bytes) THEN bytes[i] ELSE 0

\* the inverse of the group layout: sample c (1-based) of a packed row
UnpackSample(bytes, d, c) ==
    LET k == (c - 1) \div group_size(d)
        j == (c - 1) % group_size(d)
        B(n) == ByteAt(bytes, group_bytes(d) * k + n + 1)
    IN CASE d = 10 /\ j = 0 -> B(0) * 4 + B(1) \div 64
         [] d = 10 /\ j = 1 -> (B(1) % 64) * 16 + B(2) \div 16
         [] d = 10 /\ j = 2 -> (B(2) % 16) * 64 + B(3) \div 4
         [] d = 10 /\ j = 3 -> (B(3) % 4) * 256 + B(4)
         [] d = 12 /\ j = 0 -> B(0) * 16 + B(1) \div 16
         [] d = 12 /\ j = 1 -> (B(1) % 16) * 256 + B(2)
         [] d = 14 /\ j = 0 -> B(0) * 64 + B(1) \div 4
         [] d = 14 /\ j = 1 -> (B(1) % 4) * 4096 + B(2) * 16 + B(3) \div 16
         [] d = 14 /\ j = 2 -> (B(3) % 16) * 1024 + B(4) * 4 + B(5) \div 64
         [] d = 14 /\ j = 3 -> (B(5) % 64) * 256 + B(6)

UnpackRow(bytes, d, w) == [c \in 1..w |-> UnpackSample(bytes, d, c)]

\* C1: for every packed depth, every width from 1 up and every array of
\* samples below 2^d, unpacking each packed row by the inverse of the group
\* layout gives back the row.
RoundTrip ==
    (pkState = "packed" /\ ValidSamples(pkData, pkDepth)) =>
        \A r \in 1..Len(pkData) :
            UnpackRow(pkOut[r], pkDepth, Len(pkData[r])) = pkData[r]

\* a packed row of valid samples, longer than one group and not a whole
\* number of groups, whose last sample has every bit set
RoundTripWitness ==
    /\ pkState = "packed"
    /\ ValidSamples(pkData, pkDepth)
    /\ Len(pkData[1]) > group_size(pkDepth)
    /\ Len(pkData[1]) % group_size(pkDepth) # 0
    /\ pkData[1][Len(pkData[1])] = Pow2(pkDepth) - 1
    /\ pkData[1][1] = 9893 % Pow2(pkDepth)

\* C2: every packed row has exactly ceil(w*d/8) bytes and the strip h times
\* that, whatever w is; the padded packed row is never shorter; and when w is
\* a multiple of the group size nothing is padded or cut off.
ExactRowLength ==
    pkState = "packed" =>
        LET w == Len(pkData[1])
            full == pack_func(pkDepth, data_padded(pkData, pkDepth))
        IN /\ Len(pkOut) = Len(pkData)
           /\ \A r \in 1..Len(pkOut) : Len(pkOut[r]) = CeilDiv8(w * pkDepth)
           /\ Len(Flatten(pkOut)) = Len(pkData) * CeilDiv8(w * pkDepth)
           /\ \A r \in 1..Len(full) : Len(full[r]) >= CeilDiv8(w * pkDepth)
           /\ w % group_size(pkDepth) = 0 =>
                 /\ pkOut = pack_func(pkDepth, pkData)
                 /\ Len(pkOut[1]) = (w \div group_size(pkDepth)) * group_bytes(pkDepth)

\* an array of more than one row whose padded packed rows were cut
ExactRowLengthWitness ==
    /\ pkState = "packed"
    /\ Len(pkData) > 1
    /\ Len(pkData[1]) % group_size(pkDepth) # 0
    /\ Len(pkData[1]) > group_size(pkDepth)
    /\ Len(pack_func(pkDepth, data_padded(pkData, pkDepth))[1]) > Len(pkOut[1])

\* the array with each sample reduced to its low d bits
MaskSamples(data, d) ==
    [r \in 1..Len(data) |-> [c \in 1..Len(data[r]) |-> data[r][c] % Pow2(d)]]

\* C3: for every packed depth and every array of uint16 samples, those of
\* 2^d and above included, the packed bytes are the packed bytes of the
\* array with each sample reduced to its low d bits.
MaskedPacking ==
    pkState = "packed" => pkOut = pack_raw_safe(MaskSamples(pkData, pkDepth), pkDepth)

(***************************************************************************)
(* Properties of the orchestrator.                                         *)
(***************************************************************************)
\* the last operation was a convert on a configured converter
Converted == call.op = "convert" /\ self_tags # {}

ConfiguredTags == CHOOSE t \in self_tags : TRUE

ConfiguredBits == ConfiguredTags["BitsPerSample"][1]

\* nothing was written anywhere by the last call
NoOutput == streamOut = <<>> /\ fileOut = {}

\* C4: a convert whose configured bits-per-sample is none of 8, 10, 12, 14,
\* 16, 32 fails and emits nothing.
UnsupportedBitDepthFails ==
    (Converted /\ ConfiguredBits \notin {8, 10, 12, 14, 16, 32}) =>
        (outcome # "" /\ returned.kind = "raise" /\ NoOutput)

MissingTagErrors == {ErrNoWidth, ErrNoHeight, ErrNoBits}

\* an options call without width, height or bits-per-sample raises and
\* leaves tags and path as they were
FailFastStep ==
    (call'.op = "options" /\ ~(RequiredTags \subseteq DOMAIN call'.tags)) =>
        (outcome' \in MissingTagErrors /\ self_tags' = self_tags /\ self_path' = self_path)

\* only an options call that returns configures the converter
StaysUnconfigured ==
    (self_tags = {} /\ ~(call'.op = "options" /\ outcome' = "")) => self_tags' = {}

\* convert on an unconfigured converter raises before anything else is done
NotConfiguredFails ==
    (call.op = "convert" /\ self_tags = {}) =>
        /\ outcome = ErrNotConfigured
        /\ returned.kind = "raise"
        /\ log = <<"check_options">>
        /\ mainIFD = <<>> /\ strips = <<>> /\ NoOutput

\* C5: an options call whose tag set omits width, height or bits-per-sample
\* fails and stores nothing; a converter no options call has succeeded on
\* stays unconfigured, and every convert on it fails with the not-configured
\* error before any validation, packing or output.
ConfigFailFast == [][FailFastStep /\ StaysUnconfigured]_vars /\ []NotConfiguredFails

\* a failed options call on a converter that an earlier call configured
ConfigFailFastWitness ==
    /\ call.op = "options"
    /\ outcome = ErrNoBits
    /\ self_tags # {}
    /\ self_path # {}

\* C6: what a convert with a stream writes to it is the buffer the same
\* convert with no destination returns.
StreamingParity ==
    (Converted /\ outcome = "" /\ call.file # {}) =>
        streamOut = convert(self_tags, self_path, self_filter,
                            call.image, <<>>, {}).returned.value

\* C7: StripByteCounts holds one value, the byte length of the one strip,
\* and StripOffsets holds one value, with a stream or without.
ContainerInvariant ==
    (Converted /\ outcome = "") =>
        /\ Len(strips) = 1
        /\ mainIFD[3].tag = "StripByteCounts"
        /\ mainIFD[3].value = <<Len(strips[1].bytes)>>
        /\ mainIFD[1].tag = "StripOffsets"
        /\ Len(mainIFD[1].value) = 1

\* C8: a convert whose tag set holds a reserved tag fails, and no main
\* directory holds two entries of one tag.
ReservedTagConflictFails ==
    /\ (Converted /\ DOMAIN ConfiguredTags \cap ReservedTags # {}) => outcome # ""
    /\ \A i, j \in 1..Len(mainIFD) : mainIFD[i].tag = mainIFD[j].tag => i = j

\* C9: a successful convert of a float32 frame has SampleFormat floating
\* point and DNGBackwardVersion 1.4, with a pixel transform or without; of a
\* uint16 frame, unsigned integer and 1.0; Compression is uncompressed.
SampleFormatFollowsInput ==
    (Converted /\ outcome = "") =>
        /\ mainIFD[4] = [tag |-> "Compression", value |-> <<1>>]
        /\ call.image.dtype = "float32" =>
              /\ mainIFD[8] = [tag |-> "SampleFormat", value |-> <<3>>]
              /\ mainIFD[7] = [tag |-> "DNGBackwardVersion", value |-> <<1, 4, 0, 0>>]
        /\ call.image.dtype = "uint16" =>
              /\ mainIFD[8] = [tag |-> "SampleFormat", value |-> <<1>>]
              /\ mainIFD[7] = [tag |-> "DNGBackwardVersion", value |-> <<1, 0, 0, 0>>]

\* the filename with ".dng" appended unless it ends with it, under dir
ExpectedPath(dir, filename) ==
    dir \o <<47>> \o
    (IF Len(filename) >= 4 /\ SubSeq(filename, Len(filename) - 3, Len(filename)) = DotDng
     THEN filename ELSE filename \o DotDng)

\* C10: a successful convert with a stream returns None and opens no file,
\* whatever the filename; else with a filename it writes the whole buffer to
\* the filename under the output directory, ".dng" appended only when the
\* filename does not end with it, and returns that path; else it returns the
\* buffer and writes nothing.
DestinationResolution ==
    (Converted /\ outcome = "") =>
        /\ call.file # {} => (returned.kind = "None" /\ fileOut = {})
        /\ (call.file = {} /\ call.filename # <<>>) =>
              /\ returned = [kind |-> "path",
                             value |-> ExpectedPath(CHOOSE d \in self_path : TRUE,
                                                    call.filename)]
              /\ fileOut = {[name |-> returned.value,
                             bytes |-> WriteImage(mainIFD, strips)]}
              /\ streamOut = <<>>
        /\ (call.file = {} /\ call.filename = <<>>) =>
              /\ returned = [kind |-> "buf", value |-> WriteImage(mainIFD, strips)]
              /\ NoOutput

\* a file written under a filename that already ends with ".dng"
DestinationResolutionWitness ==
    /\ Converted /\ outcome = ""
    /\ call.file = {}
    /\ call.filename = <<97>> \o DotDng
    /\ returned.kind = "path"
    /\ fileOut # {}

\* the set of the elements of a sequence
Range(s) == {s[i] : i \in 1..Len(s)}

\* the messages __filter__ raises
FilterErrors == {ErrFilterKind, ErrFilterShape, ErrFilterDtype}

\* the configured pixel transform's return value for the frame of the call
FilterReturn == CallFilter(CHOOSE f \in self_filter : TRUE, unpack_pixels(call.image))

\* the return value is no array, or differs in shape, or is not uint16
BreaksFilterContract(p, rawFrame) ==
    \/ p.kind # "ndarray"
    \/ p.frame.shape # rawFrame.shape
    \/ p.frame.dtype # "uint16"

\* C11: a convert call whose frame passed the element-type check and whose
\* configured transform returns something that is not an array, or has
\* another shape than its input, or is not uint16, raises one of the filter
\* errors and leaves no directory, no strip, no stream byte and no file; with
\* no transform configured no filter error is raised and the frame handed to
\* __process__ is the frame of the call.
FilterContract ==
    (Converted /\ data_condition(call.image) = "") =>
        IF self_filter = {}
        THEN /\ outcome \notin FilterErrors
             /\ filter(unpack_pixels(call.image), self_filter).frame = call.image
             /\ "filter_call" \notin Range(log)
             /\ outcome = "" =>
                    strips = process(call.image, ConfiguredTags, call.file).tiles
        ELSE BreaksFilterContract(FilterReturn, call.image) =>
                /\ outcome \in FilterErrors
                /\ returned.kind = "raise"
                /\ NoOutput
                /\ mainIFD = <<>> /\ strips = <<>>

\* a uint16 frame of the configured shape flattened by the transform, a
\* stream given
FilterContractWitness ==
    /\ Converted
    /\ self_filter = {"ravel"}
    /\ call.image.dtype = "uint16"
    /\ shape_check(call.image, ConfiguredTags) = ""
    /\ call.file # {}
    /\ outcome = ErrFilterShape
    /\ NoOutput

\* C12: the element type and then the shape of the frame are checked before
\* the pixel transform is invoked: in every convert call in which the
\* transform was invoked the frame of the call has an accepted element type,
\* rank 2 or more and the configured height and width as its first two axes.
ValidationBeforeFilter ==
    (Converted /\ "filter_call" \in Range(log)) =>
        /\ data_condition(call.image) = ""
        /\ shape_check(call.image, ConfiguredTags) = ""

\* the steps that touch the destination
DestinationSteps == {"stream_write", "file_open", "file_write"}

\* position of the first destination step of the call, 0 when there is none
FirstTouch ==
    IF \E i \in 1..Len(log) : log[i] \in DestinationSteps
    THEN CHOOSE i \in 1..Len(log) :
            /\ log[i] \in DestinationSteps
            /\ \A j \in 1..(i - 1) : log[j] \notin DestinationSteps
    ELSE 0

\* C13: a convert call that raises has written no byte to the stream and has
\* opened no file, and no destination step is among its steps; a call that
\* touches the destination raised nothing and touched it only after the
\* element-type check, the shape check, packing and layout.
NoPartialOutput ==
    call.op = "convert" =>
        /\ outcome # "" =>
              /\ returned.kind = "raise"
              /\ NoOutput
              /\ Range(log) \cap DestinationSteps = {}
        /\ FirstTouch # 0 =>
              /\ outcome = ""
              /\ {"data_condition", "shape_check", "pack", "layout"}
                    \subseteq {log[j] : j \in 1..(FirstTouch - 1)}

\* a shape mismatch on a call that names an output file
NoPartialOutputWitness ==
    /\ Converted
    /\ outcome = ErrShape
    /\ call.file = {}
    /\ Len(call.filename) > 0
    /\ fileOut = {}

\* the layout table: byte n (0-based) of the group of the samples s at depth d
LayoutByte(d, s, n) ==
    CASE d = 10 /\ n = 0 -> s[1] \div 4
      [] d = 10 /\ n = 1 -> (s[1] % 4) * 64 + s[2] \div 16
      [] d = 10 /\ n = 2 -> (s[2] % 16) * 16 + s[3] \div 64
      [] d = 10 /\ n = 3 -> (s[3] % 64) * 4 + s[4] \div 256
      [] d = 10 /\ n = 4 -> s[4] % 256
      [] d = 12 /\ n = 0 -> s[1] \div 16
      [] d = 12 /\ n = 1 -> (s[1] % 16) * 16 + s[2] \div 256
      [] d = 12 /\ n = 2 -> s[2] % 256
      [] d = 14 /\ n = 0 -> s[1] \div 64
      [] d = 14 /\ n = 1 -> (s[1] % 64) * 4 + s[2] \div 4096
      [] d = 14 /\ n = 2 -> (s[2] \div 16) % 256
      [] d = 14 /\ n = 3 -> (s[2] % 16) * 16 + s[3] \div 1024
      [] d = 14 /\ n = 4 -> (s[3] \div 4) % 256
      [] d = 14 /\ n = 5 -> (s[3] % 4) * 64 + s[4] \div 256
      [] d = 14 /\ n = 6 -> s[4] % 256

\* the samples of group k (0-based) of a padded row
GroupSamples(row, d, k) == SubSeq(row, group_size(d) * k + 1, group_size(d) * (k + 1))

\* C14: for every packed depth and every array of samples below 2^d, each
\* row packed by pack10, pack12 or pack14 holds b bytes for each of its
\* groups, byte k*b+n being byte n of the layout table for the samples of
\* group k and lying in 0..255, and the bytes pack_raw_safe returns are the
\* leading bytes of that row.
GroupByteLayout ==
    (pkState = "packed" /\ ValidSamples(pkData, pkDepth)) =>
        \A r \in 1..Len(pkData) :
            LET row == data_padded(pkData, pkDepth)[r]
                packed == pack_func(pkDepth, <<row>>)[1]
                b == group_bytes(pkDepth)
                groups == Len(row) \div group_size(pkDepth)
            IN /\ Len(packed) = groups * b
               /\ \A k \in 0..(groups - 1) : \A n \in 0..(b - 1) :
                     /\ packed[k * b + n + 1] \in 0..255
                     /\ packed[k * b + n + 1]
                            = LayoutByte(pkDepth, GroupSamples(row, pkDepth, k), n)
               /\ Len(pkOut[r]) <= Len(packed)
               /\ pkOut[r] = SubSeq(packed, 1, Len(pkOut[r]))

\* a row of two groups whose second group holds a sample with bits in both
\* of the bytes it spans
GroupByteLayoutWitness ==
    /\ pkState = "packed"
    /\ ValidSamples(pkData, pkDepth)
    /\ Len(pkData[1]) > group_size(pkDepth)
    /\ pkData[1][group_size(pkDepth) + 1] = Pow2(pkDepth) - 1
    /\ Len(pkOut[1]) > group_bytes(pkDepth)
    /\ pkOut[1][group_bytes(pkDepth) + 1] = 255

====
